---- MODULE Spec2Model ----
(***************************************************************************)
(* The marshal ("pyc") object decoder of format/python/pyc.go as a state   *)
(* machine.  One behaviour is one run of decodePYC over one input: the     *)
(* Go call stack of r_object invocations is the sequence `stack`, the      *)
(* decoder's read position is `pos`, and the fields handed to the field    *)
(* tree (d.FieldXxx) are appended to `out` in emission order.              *)
(*                                                                         *)
(* The decode library (decode.D: U8, FieldS32, FieldRawLen, FieldStruct,   *)
(* FieldStructNArray, ...) is not part of format/python/pyc.go; its        *)
(* operators below follow the natural-language specification (primitive    *)
(* readers, sections 4.4 and 7).                                           *)
(***************************************************************************)
EXTENDS Integers, Sequences, FiniteSets, TLC

VARIABLES data, pos, stack, status, ret, out

vars == <<data, pos, stack, status, ret, out>>

----------------------------------------------------------------------------
(* Type tags: the const block of pyc.go (ASCII codes of the characters).   *)

TYPE_NULL == 48
TYPE_NONE == 78
TYPE_FALSE == 70
TYPE_TRUE == 84
TYPE_STOPITER == 83
TYPE_ELLIPSIS == 46
TYPE_BINARY_FLOAT == 103
TYPE_BINARY_COMPLEX == 121
TYPE_LONG == 108
TYPE_STRING == 115
TYPE_TUPLE == 40
TYPE_LIST == 91
TYPE_DICT == 123
TYPE_CODE == 99
TYPE_UNICODE == 117
TYPE_UNKNOWN == 63
TYPE_SET == 60
TYPE_FROZENSET == 62
TYPE_SLICE == 58
TYPE_INTERNED == 116
TYPE_ASCII == 97
TYPE_ASCII_INTERNED == 65
TYPE_SHORT_ASCII == 122
TYPE_SHORT_ASCII_INTERNED == 90
TYPE_INT == 105
TYPE_SMALL_TUPLE == 41
TYPE_COMPLEX == 120
TYPE_FLOAT == 102
TYPE_INT64 == 73
TYPE_REF == 114
FLAG_REF == 128

(* The tags r_object's switch has a case for (TYPE_UNKNOWN has none).      *)
CaseTags ==
    { TYPE_NULL, TYPE_NONE, TYPE_STOPITER, TYPE_ELLIPSIS, TYPE_FALSE, TYPE_TRUE,
      TYPE_INT, TYPE_INT64, TYPE_LONG, TYPE_FLOAT, TYPE_BINARY_FLOAT,
      TYPE_COMPLEX, TYPE_BINARY_COMPLEX, TYPE_STRING, TYPE_ASCII_INTERNED,
      TYPE_ASCII, TYPE_SHORT_ASCII_INTERNED, TYPE_SHORT_ASCII, TYPE_INTERNED,
      TYPE_UNICODE, TYPE_SMALL_TUPLE, TYPE_TUPLE, TYPE_LIST, TYPE_DICT,
      TYPE_SET, TYPE_FROZENSET, TYPE_CODE, TYPE_REF, TYPE_SLICE }

NoDataTags ==
    { TYPE_NULL, TYPE_NONE, TYPE_STOPITER, TYPE_ELLIPSIS, TYPE_FALSE, TYPE_TRUE }

----------------------------------------------------------------------------
(* Bit operations on the byte read by d.U8() (the upper 56 bits of the     *)
(* uint64 are zero, so eight bits carry the whole computation).            *)

RECURSIVE BitAnd(_, _, _)
BitAnd(a, b, w) ==
    IF w = 0 THEN 0
    ELSE (IF a % 2 = 1 /\ b % 2 = 1 THEN 1 ELSE 0)
         + 2 * BitAnd(a \div 2, b \div 2, w - 1)

BitNot8(a) == 255 - a

(* code & ^FLAG_REF *)
StripFlagKept(code) == code
StripFlag(code) == BitAnd(code, BitNot8(FLAG_REF), 8)

----------------------------------------------------------------------------
(* The decoder state as one record, so that a whole run can also be        *)
(* computed as a function of the input (Run, below).                       *)

cur ==
    [data |-> data, pos |-> pos, stack |-> stack, status |-> status,
     ret |-> ret, out |-> out]

Becomes(s) ==
    /\ data' = s.data
    /\ pos' = s.pos
    /\ stack' = s.stack
    /\ status' = s.status
    /\ ret' = s.ret
    /\ out' = s.out

Running(s) == s.status = "running"
Top(s) == s.stack[Len(s.stack)]
SetTop(s, f) == [s EXCEPT !.stack[Len(s.stack)] = f]
SetPc(s, pc) == [s EXCEPT !.stack[Len(s.stack)].pc = pc]
Fail(s, kind) == [s EXCEPT !.status = kind]

(* A fresh r_object invocation, about to read its tag. *)
Frame(at) == [pc |-> "type", ty |-> -1, n |-> 0, i |-> 0, at |-> at]

Emit(s, kind, name, len, val) ==
    [s EXCEPT !.out = Append(@, [kind |-> kind, name |-> name, depth |-> Len(s.stack),
                                 at |-> s.pos, len |-> len, val |-> val])]

----------------------------------------------------------------------------
(* Primitive readers of the decode library. *)

Avail(s, n) == s.pos + n <= Len(s.data)
ByteAt(s, k) == s.data[s.pos + 1 + k]

(* 4-byte little-endian two's complement *)
S32At(s) ==
    ByteAt(s, 0) + 256 * ByteAt(s, 1) + 65536 * ByteAt(s, 2)
    + 16777216 * (IF ByteAt(s, 3) >= 128 THEN ByteAt(s, 3) - 256 ELSE ByteAt(s, 3))

(* A fixed-width field of n bytes: emitted and skipped, or the read fails  *)
(* when fewer than n bytes remain.                                         *)
FieldFixed(s, name, n, val) ==
    IF Avail(s, n)
    THEN [Emit(s, "scalar", name, n, val) EXCEPT !.pos = @ + n]
    ELSE Fail(s, "TruncatedInput")

FieldU8(s, name) == FieldFixed(s, name, 1, IF Avail(s, 1) THEN ByteAt(s, 0) ELSE 0)
FieldS32(s, name) == FieldFixed(s, name, 4, IF Avail(s, 4) THEN S32At(s) ELSE 0)
FieldU32(s, name) == FieldFixed(s, name, 4, 0)
FieldS64(s, name) == FieldFixed(s, name, 8, 0)
FieldF64(s, name) == FieldFixed(s, name, 8, 0)

(* FieldRawLen / FieldStr with a declared byte length *)
FieldLen(s, name, n) ==
    IF n < 0 THEN Fail(s, "MalformedLength")
    ELSE IF ~Avail(s, n) THEN Fail(s, "MalformedLength")
    ELSE [Emit(s, "scalar", name, n, 0) EXCEPT !.pos = @ + n]

(* FieldUTF8ShortString: one length byte, then that many bytes *)
FieldUTF8ShortString(s, name) ==
    IF ~Avail(s, 1) THEN Fail(s, "TruncatedInput")
    ELSE LET n == ByteAt(s, 0)
         IN IF ~Avail(s, 1 + n) THEN Fail(s, "TruncatedInput")
            ELSE [Emit(s, "scalar", name, 1 + n, n) EXCEPT !.pos = @ + 1 + n]

(* FieldStruct(name, fn) where fn calls r_object: the struct is opened and *)
(* a new r_object invocation starts at the current position.               *)
FieldStruct(s, name) ==
    LET e == Emit(s, "struct", name, 0, 0)
    IN [e EXCEPT !.stack = Append(@, Frame(s.pos))]

----------------------------------------------------------------------------
(* r_object: the tag read (FieldUintFn "type": d.U8() and the flag strip). *)

AtPc(s, pc) == Running(s) /\ Len(s.stack) > 0 /\ Top(s).pc = pc
AtCase(s, tags) == AtPc(s, "switch") /\ Top(s).ty \in tags

ReadTypePeek(s) ==
    IF ~Avail(s, 1) THEN Fail(s, "TruncatedInput")
    ELSE LET ty == StripFlag(ByteAt(s, 0))
         IN SetTop(Emit(s, "scalar", "type", 1, ty),
                   [Top(s) EXCEPT !.ty = ty, !.pc = "switch"])

ReadType(s) ==
    IF ~Avail(s, 1) THEN Fail(s, "TruncatedInput")
    ELSE LET ty == StripFlag(ByteAt(s, 0))
             s1 == [Emit(s, "scalar", "type", 1, ty) EXCEPT !.pos = @ + 1]
         IN SetTop(s1, [Top(s) EXCEPT !.ty = ty, !.pc = "switch"])

(* The end of a switch case: control reaches `return ty`. *)
ToReturn(s) == IF Running(s) THEN SetPc(s, "return") ELSE s

(* `return ty`: the invocation ends, the enclosing FieldStruct closes with *)
(* the byte range the object took, and the caller sees ty.  The outermost  *)
(* return ends decodePYC.                                                  *)
ReturnLastTag(s) ==
    LET f == Top(s)
        popped == [s EXCEPT !.stack = SubSeq(@, 1, Len(@) - 1),
                            !.ret = IF f.i > 0 THEN s.ret ELSE f.ty]
        closed == [popped EXCEPT !.out =
                      Append(@, [kind |-> "end", name |-> "end", depth |-> Len(popped.stack),
                                 at |-> f.at, len |-> s.pos - f.at, val |-> f.ty])]
    IN IF Len(closed.stack) = 0 THEN [closed EXCEPT !.status = "ok"] ELSE closed

Return(s) ==
    LET f == Top(s)
        popped == [s EXCEPT !.stack = SubSeq(@, 1, Len(@) - 1), !.ret = f.ty]
        closed == [popped EXCEPT !.out =
                      Append(@, [kind |-> "end", name |-> "end", depth |-> Len(popped.stack),
                                 at |-> f.at, len |-> s.pos - f.at, val |-> f.ty])]
    IN IF Len(closed.stack) = 0 THEN [closed EXCEPT !.status = "ok"] ELSE closed

----------------------------------------------------------------------------
(* The switch cases without children. *)

CaseNoData(s) == ToReturn(s)
CaseInt(s) == ToReturn(FieldS32(s, "value"))
CaseInt64(s) == ToReturn(FieldS64(s, "value"))
CaseLongSkipped(s) == ToReturn(s)
CaseLong(s) == Fail(s, "panic")
CaseFloat(s) == Fail(s, "panic")
CaseBinaryFloat(s) == ToReturn(FieldF64(s, "value"))
CaseComplex(s) == Fail(s, "panic")
CaseBinaryComplex(s) ==
    LET s1 == FieldF64(s, "real")
    IN IF Running(s1) THEN ToReturn(FieldF64(s1, "imag")) ELSE s1
CaseString(s) ==
    LET s1 == FieldS32(s, "length")
    IN IF Running(s1) THEN ToReturn(FieldLen(s1, "value", S32At(s))) ELSE s1
CaseAscii(s) ==
    LET s1 == FieldS32(s, "length")
    IN IF Running(s1) THEN ToReturn(FieldLen(s1, "value", S32At(s))) ELSE s1
CaseShortAsciiInterned(s) == ToReturn(FieldUTF8ShortString(s, "string"))
CaseShortAscii(s) == ToReturn(FieldUTF8ShortString(s, "string"))
CaseUnicode(s) ==
    LET s1 == FieldS32(s, "length")
    IN IF Running(s1) THEN ToReturn(FieldLen(s1, "value", S32At(s))) ELSE s1
CaseRef(s) == ToReturn(FieldU32(s, "index"))
CaseSlice(s) == Fail(s, "panic")
(* No case matches and the switch has no default: nothing is read. *)
CaseNone(s) == ToReturn(s)

----------------------------------------------------------------------------
(* Sequences: read_list and the loop of FieldStructNArray. *)

FieldStructNArray(s, name, n) ==
    IF n < 0 THEN Fail(s, "MalformedLength")
    ELSE SetTop(Emit(s, "array", name, 0, n), [Top(s) EXCEPT !.pc = "items", !.n = n, !.i = 0])

read_list_clamped(s, n) == FieldStructNArray(s, "items", IF n < 0 THEN 0 ELSE n)
read_list_one_more(s, n) == FieldStructNArray(s, "items", n + 1)
read_list(s, n) == FieldStructNArray(s, "items", n)

CaseSmallTuple(s) ==
    LET s1 == FieldU8(s, "n")
    IN IF Running(s1) THEN read_list(s1, ByteAt(s, 0)) ELSE s1
CaseTuple(s) ==
    LET s1 == FieldS32(s, "n")
    IN IF Running(s1) THEN read_list(s1, S32At(s)) ELSE s1
CaseList(s) ==
    LET s1 == FieldS32(s, "n")
    IN IF Running(s1) THEN read_list(s1, S32At(s)) ELSE s1
CaseSet(s) ==
    LET s1 == FieldS32(s, "n")
    IN IF Running(s1) THEN read_list(s1, S32At(s)) ELSE s1

(* One iteration: FieldStruct("item", r_object). *)
ListItem(s) == FieldStruct(SetTop(s, [Top(s) EXCEPT !.i = @ + 1]), "item")
(* The loop is over: read_list returns and the case ends. *)
ListEnd(s) == ToReturn(s)

----------------------------------------------------------------------------
(* Dict: the loop `for !end` over key and value. *)

DictKeyEnd(ty) == ty = TYPE_NULL
DictValueEndNever(ty) == FALSE
DictValueEnd(ty) == ty = TYPE_NULL

(* end := false; first iteration: FieldStruct("key", ...) *)
CaseDict(s) ==
    FieldStruct(SetTop(Emit(s, "array", "items", 0, 0), [Top(s) EXCEPT !.pc = "key", !.i = 0]),
                "key")

(* The key's r_object returned: end = ty == TYPE_NULL; if end { break };   *)
(* otherwise FieldStruct("value", ...).                                    *)
DictKeyDone(s) ==
    IF DictKeyEnd(s.ret) THEN ToReturn(s)
    ELSE FieldStruct(SetPc(s, "value"), "value")

(* The value's r_object returned: end = ty == TYPE_NULL; then the loop     *)
(* condition !end.                                                         *)
DictValueDone(s) ==
    LET s1 == SetTop(s, [Top(s) EXCEPT !.i = @ + 1])
    IN IF DictValueEnd(s.ret) THEN ToReturn(s1)
       ELSE FieldStruct(SetPc(s1, "key"), "key")

----------------------------------------------------------------------------
(* The code record: the statements of case TYPE_CODE in order. *)

CodeFieldsLineFirst ==
    << [name |-> "argcount", kind |-> "s32"],
       [name |-> "posonlyargcount", kind |-> "s32"],
       [name |-> "kwonlyargcount", kind |-> "s32"],
       [name |-> "stacksize", kind |-> "s32"],
       [name |-> "flags", kind |-> "s32"],
       [name |-> "firstlineno", kind |-> "u32"],
       [name |-> "code", kind |-> "object"],
       [name |-> "consts", kind |-> "object"],
       [name |-> "names", kind |-> "object"],
       [name |-> "localsplusnames", kind |-> "object"],
       [name |-> "localspluskinds", kind |-> "object"],
       [name |-> "filename", kind |-> "object"],
       [name |-> "name", kind |-> "object"],
       [name |-> "qualname", kind |-> "object"],
       [name |-> "linetable", kind |-> "object"],
       [name |-> "exceptiontable", kind |-> "object"] >>

CodeFields ==
    << [name |-> "argcount", kind |-> "s32"],
       [name |-> "posonlyargcount", kind |-> "s32"],
       [name |-> "kwonlyargcount", kind |-> "s32"],
       [name |-> "stacksize", kind |-> "s32"],
       [name |-> "flags", kind |-> "s32"],
       [name |-> "code", kind |-> "object"],
       [name |-> "consts", kind |-> "object"],
       [name |-> "names", kind |-> "object"],
       [name |-> "localsplusnames", kind |-> "object"],
       [name |-> "localspluskinds", kind |-> "object"],
       [name |-> "filename", kind |-> "object"],
       [name |-> "name", kind |-> "object"],
       [name |-> "qualname", kind |-> "object"],
       [name |-> "firstlineno", kind |-> "u32"],
       [name |-> "linetable", kind |-> "object"],
       [name |-> "exceptiontable", kind |-> "object"] >>

(* Statements k, k+1, ... of the case, up to the next r_object call (which *)
(* suspends this invocation) or the end of the case.                       *)
RECURSIVE CodeFrom(_, _)
CodeFrom(s, k) ==
    IF ~Running(s) THEN s
    ELSE IF k > Len(CodeFields) THEN ToReturn(s)
    ELSE LET fld == CodeFields[k]
         IN IF fld.kind = "object"
            THEN FieldStruct(SetTop(s, [Top(s) EXCEPT !.pc = "code", !.i = k]), fld.name)
            ELSE IF fld.kind = "s32" THEN CodeFrom(FieldS32(s, fld.name), k + 1)
            ELSE CodeFrom(FieldU32(s, fld.name), k + 1)

CaseCode(s) == CodeFrom(s, 1)
(* An object field's r_object returned: the case goes on. *)
CodeResume(s) == CodeFrom(s, Top(s).i + 1)

----------------------------------------------------------------------------
(* decodePYC: the four header fields, then the one top-level object. *)

decodePYC(s) ==
    LET s0 == [s EXCEPT !.status = "running"]
        s1 == FieldU32(s0, "magic")
        s2 == IF Running(s1) THEN FieldLen(s1, "bit field", 4) ELSE s1
        s3 == IF Running(s2) THEN FieldU32(s2, "timestamp") ELSE s2
        s4 == IF Running(s3) THEN FieldU32(s3, "length") ELSE s3
    IN IF Running(s4) THEN FieldStruct(s4, "object") ELSE s4

----------------------------------------------------------------------------
(* The whole decoder as a function: the statement a state executes next,   *)
(* and a run to completion.                                                *)

Switch(s) ==
    LET ty == Top(s).ty
    IN CASE ty \in NoDataTags -> CaseNoData(s)
         [] ty = TYPE_INT -> CaseInt(s)
         [] ty = TYPE_INT64 -> CaseInt64(s)
         [] ty = TYPE_LONG -> CaseLong(s)
         [] ty = TYPE_FLOAT -> CaseFloat(s)
         [] ty = TYPE_BINARY_FLOAT -> CaseBinaryFloat(s)
         [] ty = TYPE_COMPLEX -> CaseComplex(s)
         [] ty = TYPE_BINARY_COMPLEX -> CaseBinaryComplex(s)
         [] ty = TYPE_STRING -> CaseString(s)
         [] ty \in {TYPE_ASCII_INTERNED, TYPE_ASCII} -> CaseAscii(s)
         [] ty = TYPE_SHORT_ASCII_INTERNED -> CaseShortAsciiInterned(s)
         [] ty = TYPE_SHORT_ASCII -> CaseShortAscii(s)
         [] ty \in {TYPE_INTERNED, TYPE_UNICODE} -> CaseUnicode(s)
         [] ty = TYPE_SMALL_TUPLE -> CaseSmallTuple(s)
         [] ty = TYPE_TUPLE -> CaseTuple(s)
         [] ty = TYPE_LIST -> CaseList(s)
         [] ty = TYPE_DICT -> CaseDict(s)
         [] ty \in {TYPE_SET, TYPE_FROZENSET} -> CaseSet(s)
         [] ty = TYPE_CODE -> CaseCode(s)
         [] ty = TYPE_REF -> CaseRef(s)
         [] ty = TYPE_SLICE -> CaseSlice(s)
         [] OTHER -> CaseNone(s)

Done(s) == s.status \notin {"start", "running"}

Advance(s) ==
    IF s.status = "start" THEN decodePYC(s)
    ELSE LET pc == Top(s).pc
         IN CASE pc = "type" -> ReadType(s)
              [] pc = "switch" -> Switch(s)
              [] pc = "items" -> IF Top(s).i < Top(s).n THEN ListItem(s) ELSE ListEnd(s)
              [] pc = "key" -> DictKeyDone(s)
              [] pc = "value" -> DictValueDone(s)
              [] pc = "code" -> CodeResume(s)
              [] pc = "return" -> Return(s)

RECURSIVE Run(_)
Run(s) == IF Done(s) THEN s ELSE Run(Advance(s))

Start(bytes) ==
    [data |-> bytes, pos |-> 0, stack |-> << >>, status |-> "start",
     ret |-> -1, out |-> << >>]

----------------------------------------------------------------------------
(* Inputs. *)

MaxTail == 2
MaxDictItems == 5
MaxCount == 2
MaxNest == 6

RECURSIVE Flatten(_)
Flatten(ss) == IF Len(ss) = 0 THEN << >> ELSE Head(ss) \o Flatten(Tail(ss))

SeqsUpTo(S, n) == UNION { [1..m -> S] : m \in 0..n }

Header == <<167, 13, 13, 10, 0, 0, 0, 0, 1, 2, 3, 4, 9, 0, 0, 0>>

(* n as four little-endian bytes, for small |n| *)
Word(n) == IF n >= 0 THEN <<n, 0, 0, 0>> ELSE <<256 + n, 255, 255, 255>>

(* Every tag with a case, and three bytes without one, each with and       *)
(* without the reference flag, followed by a few words and tags.           *)
FirstBytes == { t + f : t \in CaseTags \cup {0, 113, TYPE_UNKNOWN}, f \in {0, FLAG_REF} }
TailTokens ==
    { Word(0), Word(1), Word(-1), <<TYPE_NONE>>, <<TYPE_NULL>>, <<TYPE_LONG>> }
TagInputs ==
    { <<b>> \o Flatten(tl) : b \in FirstBytes, tl \in SeqsUpTo(TailTokens, MaxTail) }

(* Dicts, bare and (the shorter ones) as the first of two elements of a    *)
(* small tuple.                                                            *)
DictItems ==
    { <<TYPE_NULL>>, <<TYPE_NULL + FLAG_REF>>, <<TYPE_NONE>>,
      <<TYPE_SMALL_TUPLE, 1, TYPE_NULL>> }
DictInputs ==
    { <<TYPE_DICT>> \o Flatten(items) : items \in SeqsUpTo(DictItems, MaxDictItems) }
    \cup { <<TYPE_SMALL_TUPLE, 2, TYPE_DICT>> \o Flatten(items) :
              items \in SeqsUpTo(DictItems, MaxDictItems - 2) }

(* Sequences with a declared count and some children. *)
SeqHeads ==
    { <<TYPE_SMALL_TUPLE, n>> : n \in 0..MaxCount }
    \cup { <<t>> \o Word(n) : t \in {TYPE_TUPLE, TYPE_LIST, TYPE_SET, TYPE_FROZENSET},
                              n \in -2..MaxCount }
    \cup { <<TYPE_TUPLE, 0, 0, 0, 128>> }
SeqItems == { <<TYPE_NONE>>, <<TYPE_NULL>>, <<TYPE_INT + FLAG_REF, 7, 0, 0, 0>> }
SeqInputs ==
    { h \o Flatten(items) : h \in SeqHeads, items \in SeqsUpTo(SeqItems, MaxCount + 1) }

(* Code records: all ten object fields alike but one; and every prefix. *)
CodeInts == Word(1) \o Word(2) \o Word(3) \o Word(4) \o Word(5)
CodeObjects ==
    { <<TYPE_NULL>>, <<TYPE_NONE>>, <<TYPE_INT, 5, 0, 0, 0>>,
      <<TYPE_SMALL_TUPLE, 1, TYPE_NONE>>, <<TYPE_SLICE>>, <<0>> }
CodeRecord(objs) ==
    <<TYPE_CODE>> \o CodeInts \o Flatten(SubSeq(objs, 1, 8)) \o Word(6)
    \o Flatten(SubSeq(objs, 9, 10))
CodeInputs ==
    { CodeRecord([k \in 1..10 |-> IF k = j THEN c ELSE <<b>>]) \o <<TYPE_NONE>> :
        j \in 1..10, c \in CodeObjects, b \in {TYPE_NULL, TYPE_TRUE} }
    \cup { SubSeq(CodeRecord([k \in 1..10 |-> <<TYPE_NULL>>]), 1, m) : m \in 1..34 }

(* k nested single-element small tuples. *)
RECURSIVE Nest(_)
Nest(k) == IF k = 0 THEN <<TYPE_NONE>> ELSE <<TYPE_SMALL_TUPLE, 1>> \o Nest(k - 1)
NestInputs == { Nest(k) : k \in 0..MaxNest }

(* Scalars with exactly their payload and one byte after it. *)
Payload(n) == [k \in 1..n |-> k]
ScalarInputs ==
    { <<TYPE_INT>> \o Payload(4), <<TYPE_INT64>> \o Payload(8),
      <<TYPE_BINARY_FLOAT>> \o Payload(8), <<TYPE_BINARY_COMPLEX>> \o Payload(16),
      <<TYPE_REF>> \o Payload(4), <<TYPE_STRING>> \o Word(2) \o Payload(2),
      <<TYPE_SHORT_ASCII, 3>> \o Payload(3), <<TYPE_UNICODE>> \o Word(-1) }

Bodies == TagInputs \cup DictInputs \cup SeqInputs \cup CodeInputs \cup NestInputs
          \cup { b \o <<TYPE_NONE>> : b \in ScalarInputs }

Inputs == { Header \o b : b \in Bodies } \cup { SubSeq(Header, 1, m) : m \in {0, 7, 15} }

----------------------------------------------------------------------------
(* The state machine. *)

Init ==
    /\ data \in Inputs
    /\ pos = 0
    /\ stack = << >>
    /\ status = "start"
    /\ ret = -1
    /\ out = << >>

DecodePYC == status = "start" /\ Becomes(decodePYC(cur))
RObjectType == AtPc(cur, "type") /\ Becomes(ReadType(cur))
RObjectNoData == AtCase(cur, NoDataTags) /\ Becomes(CaseNoData(cur))
RObjectInt == AtCase(cur, {TYPE_INT}) /\ Becomes(CaseInt(cur))
RObjectInt64 == AtCase(cur, {TYPE_INT64}) /\ Becomes(CaseInt64(cur))
RObjectLong == AtCase(cur, {TYPE_LONG}) /\ Becomes(CaseLong(cur))
RObjectFloat == AtCase(cur, {TYPE_FLOAT}) /\ Becomes(CaseFloat(cur))
RObjectBinaryFloat == AtCase(cur, {TYPE_BINARY_FLOAT}) /\ Becomes(CaseBinaryFloat(cur))
RObjectComplex == AtCase(cur, {TYPE_COMPLEX}) /\ Becomes(CaseComplex(cur))
RObjectBinaryComplex == AtCase(cur, {TYPE_BINARY_COMPLEX}) /\ Becomes(CaseBinaryComplex(cur))
RObjectString == AtCase(cur, {TYPE_STRING}) /\ Becomes(CaseString(cur))
RObjectAscii == AtCase(cur, {TYPE_ASCII_INTERNED, TYPE_ASCII}) /\ Becomes(CaseAscii(cur))
RObjectShortAsciiInterned ==
    AtCase(cur, {TYPE_SHORT_ASCII_INTERNED}) /\ Becomes(CaseShortAsciiInterned(cur))
RObjectShortAscii == AtCase(cur, {TYPE_SHORT_ASCII}) /\ Becomes(CaseShortAscii(cur))
RObjectUnicode == AtCase(cur, {TYPE_INTERNED, TYPE_UNICODE}) /\ Becomes(CaseUnicode(cur))
RObjectSmallTuple == AtCase(cur, {TYPE_SMALL_TUPLE}) /\ Becomes(CaseSmallTuple(cur))
RObjectTuple == AtCase(cur, {TYPE_TUPLE}) /\ Becomes(CaseTuple(cur))
RObjectList == AtCase(cur, {TYPE_LIST}) /\ Becomes(CaseList(cur))
RObjectDict == AtCase(cur, {TYPE_DICT}) /\ Becomes(CaseDict(cur))
RObjectSet == AtCase(cur, {TYPE_SET, TYPE_FROZENSET}) /\ Becomes(CaseSet(cur))
RObjectCode == AtCase(cur, {TYPE_CODE}) /\ Becomes(CaseCode(cur))
RObjectRef == AtCase(cur, {TYPE_REF}) /\ Becomes(CaseRef(cur))
RObjectSlice == AtCase(cur, {TYPE_SLICE}) /\ Becomes(CaseSlice(cur))
RObjectNoCase ==
    AtPc(cur, "switch") /\ Top(cur).ty \notin CaseTags /\ Becomes(CaseNone(cur))
ReadListItem ==
    AtPc(cur, "items") /\ Top(cur).i < Top(cur).n /\ Becomes(ListItem(cur))
ReadListEnd ==
    AtPc(cur, "items") /\ Top(cur).i >= Top(cur).n /\ Becomes(ListEnd(cur))
DictAfterKey == AtPc(cur, "key") /\ Becomes(DictKeyDone(cur))
DictAfterValue == AtPc(cur, "value") /\ Becomes(DictValueDone(cur))
CodeAfterObject == AtPc(cur, "code") /\ Becomes(CodeResume(cur))
RObjectReturn == AtPc(cur, "return") /\ Becomes(Return(cur))

Next ==
    \/ DecodePYC \/ RObjectType \/ RObjectNoData \/ RObjectInt \/ RObjectInt64
    \/ RObjectLong \/ RObjectFloat \/ RObjectBinaryFloat \/ RObjectComplex
    \/ RObjectBinaryComplex \/ RObjectString \/ RObjectAscii
    \/ RObjectShortAsciiInterned \/ RObjectShortAscii \/ RObjectUnicode
    \/ RObjectSmallTuple \/ RObjectTuple \/ RObjectList \/ RObjectDict
    \/ RObjectSet \/ RObjectCode \/ RObjectRef \/ RObjectSlice \/ RObjectNoCase
    \/ ReadListItem \/ ReadListEnd \/ DictAfterKey \/ DictAfterValue
    \/ CodeAfterObject \/ RObjectReturn

Spec == Init /\ [][Next]_vars

----------------------------------------------------------------------------
(* Reading the emitted fields. *)

RECURSIVE Asc(_)
Asc(S) ==
    IF S = {} THEN << >>
    ELSE LET m == CHOOSE x \in S : \A y \in S : x <= y
         IN <<m>> \o Asc(S \ {m})

Events == 1..Len(out)
IsType(j) == out[j].kind = "scalar" /\ out[j].name = "type"
IsStruct(j, name) == out[j].kind = "struct" /\ out[j].name = name
IsEnd(j) == out[j].kind = "end"
(* out[j] closes the object whose tag is out[k] *)
Closes(j, k) ==
    /\ k < j /\ IsType(k) /\ IsEnd(j)
    /\ out[j].depth + 1 = out[k].depth /\ out[j].at = out[k].at
(* out[j] .. out[j+2] are a struct `name` holding a whole Null object *)
NullObjectIn(j, name) ==
    /\ j + 2 <= Len(out)
    /\ IsStruct(j, name)
    /\ IsType(j + 1) /\ out[j + 1].val = TYPE_NULL
    /\ IsEnd(j + 2)

UnsupportedTags == {TYPE_LONG, TYPE_FLOAT, TYPE_COMPLEX, TYPE_SLICE}

----------------------------------------------------------------------------
C2_UnknownTagFails ==
    \A j \in Events :
        (IsType(j) /\ out[j].val \notin CaseTags)
            => (j = Len(out) /\ status # "ok" /\ ~AtPc(cur, "return"))

(* C3: at every nesting position a long, legacy float, legacy complex or   *)
(* slice tag aborts the decode at that point: no payload byte is consumed  *)
(* after the tag, no field or object is produced after it, and the decode  *)
(* ends in failure, never in success.                                      *)
C3_UnsupportedAborts ==
    \A j \in Events :
        (IsType(j) /\ out[j].val \in UnsupportedTags)
            => /\ j = Len(out)
               /\ pos = out[j].at + 1
               /\ status \in {"running", "panic"}
               /\ status = "running" =>
                     (AtPc(cur, "switch") /\ Advance(cur).status = "panic")

C3_Witness ==
    /\ status = "panic"
    /\ Len(out) > 0
    /\ IsType(Len(out)) /\ out[Len(out)].val \in UnsupportedTags
    /\ out[Len(out)].depth >= 2
    /\ pos < Len(data)

(* C5: the number of simultaneously active r_object invocations never      *)
(* exceeds a configured bound, whatever the nesting of the input.  The     *)
(* source configures none; DepthLimit stands for one.                      *)
DepthLimit == 4

C5_DepthBounded == Len(stack) <= DepthLimit

(* The parts of C4. *)

(* After a Null key the dict ends at once: no value is read and no byte    *)
(* past the Null tag belongs to the dict.                                  *)
DictStopsAtNullKey ==
    \A j \in Events :
        (NullObjectIn(j, "key") /\ j + 3 <= Len(out))
            => /\ IsEnd(j + 3)
               /\ out[j + 3].val = TYPE_DICT
               /\ out[j + 3].depth + 1 = out[j].depth
               /\ out[j + 3].at + out[j + 3].len = out[j + 1].at + 1

(* A key whose own tag is not Null is followed by its value. *)
DictKeyNotNullGoesOn ==
    \A j, k \in Events :
        (IsStruct(k, "key") /\ Closes(j, k + 1) /\ out[j].val # TYPE_NULL /\ j < Len(out))
            => (IsStruct(j + 1, "value") /\ out[j + 1].depth = out[k].depth)

(* A dict ends only right after a Null key. *)
DictStopsOnlyAtNullKey ==
    \A j \in Events :
        (IsEnd(j) /\ out[j].val = TYPE_DICT)
            => (j > 3 /\ NullObjectIn(j - 3, "key"))

DictStopsOnlyAtNull ==
    \A j \in Events :
        (IsEnd(j) /\ out[j].val = TYPE_DICT)
            => (j > 3 /\ (NullObjectIn(j - 3, "key") \/ NullObjectIn(j - 3, "value")))

(* The `value` structs a finished dict, closed by out[j], holds directly. *)
Pairs(j) ==
    LET k == CHOOSE k \in Events : Closes(j, k)
    IN { m \in (k + 1)..(j - 1) : IsStruct(m, "value") /\ out[m].depth = out[k].depth }

(* A finished dict has a value for each of its keys, but for the Null key  *)
(* that closed it.                                                         *)
Keys(j) ==
    LET k == CHOOSE k \in Events : Closes(j, k)
    IN { m \in (k + 1)..(j - 1) : IsStruct(m, "key") /\ out[m].depth = out[k].depth }
DictPairsComplete ==
    \A j \in Events :
        (IsEnd(j) /\ out[j].val = TYPE_DICT /\ j > 3)
            => Cardinality(Keys(j)) =
                  Cardinality(Pairs(j)) + (IF NullObjectIn(j - 3, "key") THEN 1 ELSE 0)

(* `key1 value1 key2 value2 NULL`, none of the four a Null: two pairs.     *)
TwoPairs == <<TYPE_DICT, TYPE_NONE, TYPE_NONE, TYPE_NONE, TYPE_NONE, TYPE_NULL>>
TwoPairsExample ==
    (data = Header \o TwoPairs /\ status = "ok")
        => /\ Cardinality(Pairs(Len(out))) = 2
           /\ out[Len(out)].len = Len(TwoPairs)

----------------------------------------------------------------------------
(* C6: the reference flag never changes the decoding.  A finished decode   *)
(* is, field for field, byte for byte and in its outcome, the decode of    *)
(* the same input with the flag bit of every tag byte cleared, and the     *)
(* decode of the same input with the flag bit of every tag byte set; and   *)
(* no tag the switch sees carries the bit.                                 *)
TagPositions == { out[j].at + 1 : j \in { e \in Events : IsType(e) } }
WithFlags(f) ==
    [k \in 1..Len(data) |->
        IF k \in TagPositions THEN (data[k] % FLAG_REF) + f ELSE data[k]]
SameButData(s) ==
    /\ s.pos = pos /\ s.stack = stack /\ s.status = status
    /\ s.ret = ret /\ s.out = out

C6_FlagIgnored ==
    /\ \A k \in 1..Len(stack) : stack[k].ty < FLAG_REF
    /\ Done(cur) => /\ SameButData(Run(Start(WithFlags(0))))
                    /\ SameButData(Run(Start(WithFlags(FLAG_REF))))

C6_Witness ==
    /\ status = "ok"
    /\ \E j \in Events :
          /\ IsType(j) /\ out[j].val = TYPE_INT /\ out[j].depth >= 2
          /\ data[out[j].at + 1] = TYPE_INT + FLAG_REF
          /\ out[j + 1].name = "value" /\ out[j + 1].val = 7

----------------------------------------------------------------------------
(* C7: a tuple, list, set or frozenset that declares a negative count      *)
(* fails the decode: nothing is emitted after the count and the decode     *)
(* does not succeed.                                                       *)
CountedTags == {TYPE_TUPLE, TYPE_LIST, TYPE_SET, TYPE_FROZENSET}
SequenceTags == CountedTags \cup {TYPE_SMALL_TUPLE}
DeclaresCount(j, tags) ==
    /\ j < Len(out) /\ IsType(j) /\ out[j].val \in tags
    /\ out[j + 1].kind = "scalar" /\ out[j + 1].name = "n"

----------------------------------------------------------------------------
(* C8: a small_tuple, tuple, list, set or frozenset that has been decoded  *)
(* holds exactly as many children as it declared: n `item` structs, each   *)
(* one r_object invocation, each starting where the one before ended, the  *)
(* first right after the count field and the container ending with the     *)
(* last; with n = 0 the container ends with its count field.               *)
SpanEnd(m) == out[m].at + out[m].len

C8_ExactlyNChildren ==
    \A j \in Events :
        (IsEnd(j) /\ out[j].val \in SequenceTags) =>
            LET k == CHOOSE k \in Events : Closes(j, k)
                n == out[k + 1].val
                inside == (k + 2)..(j - 1)
                items == Asc({ m \in inside : IsStruct(m, "item")
                                              /\ out[m].depth = out[k].depth })
                kids == Asc({ m \in inside : IsEnd(m) /\ out[m].depth = out[k].depth })
            IN /\ DeclaresCount(k, SequenceTags)
               /\ n >= 0
               /\ Len(items) = n
               /\ Len(kids) = n
               /\ \A c \in 1..n :
                     /\ items[c] < kids[c]
                     /\ IsType(items[c] + 1)
                     /\ Closes(kids[c], items[c] + 1)
                     /\ c < n => kids[c] < items[c + 1]
                     /\ out[items[c]].at = IF c = 1 THEN SpanEnd(k + 1)
                                           ELSE SpanEnd(kids[c - 1])
               /\ SpanEnd(j) = IF n = 0 THEN SpanEnd(k + 1) ELSE SpanEnd(kids[n])

C8_Witness ==
    /\ status = "ok"
    /\ \E j, k \in Events :
          /\ Closes(j, k) /\ out[k].val \in CountedTags
          /\ out[k + 1].val = 2
          /\ out[j].len = 1 + 4 + 1 + 5
          /\ pos < Len(data)

----------------------------------------------------------------------------
(* C9: after a code tag exactly these sixteen fields are read, in this     *)
(* order and back to back: five 4-byte ints, eight objects, a 4-byte       *)
(* firstlineno, two objects; each object field is one r_object invocation. *)
(* A record whose ten objects take one byte each takes 34 bytes after the  *)
(* tag.                                                                    *)
CodeOrder ==
    << <<"argcount", "scalar">>, <<"posonlyargcount", "scalar">>,
       <<"kwonlyargcount", "scalar">>, <<"stacksize", "scalar">>,
       <<"flags", "scalar">>, <<"code", "struct">>, <<"consts", "struct">>,
       <<"names", "struct">>, <<"localsplusnames", "struct">>,
       <<"localspluskinds", "struct">>, <<"filename", "struct">>,
       <<"name", "struct">>, <<"qualname", "struct">>,
       <<"firstlineno", "scalar">>, <<"linetable", "struct">>,
       <<"exceptiontable", "struct">> >>

Closed(k) == \E j \in Events : Closes(j, k)
CloseOf(k) == CHOOSE j \in Events : Closes(j, k)
(* The fields the invocation whose tag is out[k] emitted itself. *)
OwnFields(k) ==
    Asc({ m \in (k + 1)..(IF Closed(k) THEN CloseOf(k) ELSE Len(out)) :
            out[m].depth = out[k].depth /\ out[m].kind \in {"scalar", "struct"} })
(* Where the field out[m] ends: a struct ends with the object in it. *)
FieldEnd(m) == IF out[m].kind = "scalar" THEN SpanEnd(m) ELSE SpanEnd(CloseOf(m + 1))

C9_CodeRecordLayout ==
    \A k \in Events :
        (IsType(k) /\ out[k].val = TYPE_CODE) =>
            LET own == OwnFields(k)
                objects == { c \in 1..Len(own) : out[own[c]].kind = "struct" }
            IN /\ Len(own) <= 16
               /\ \A c \in 1..Len(own) :
                     /\ out[own[c]].name = CodeOrder[c][1]
                     /\ out[own[c]].kind = CodeOrder[c][2]
                     /\ out[own[c]].kind = "scalar" => out[own[c]].len = 4
                     /\ (out[own[c]].kind = "struct" /\ own[c] < Len(out))
                            => IsType(own[c] + 1)
                     /\ out[own[c]].at = IF c = 1 THEN SpanEnd(k)
                                         ELSE FieldEnd(own[c - 1])
               /\ Closed(k) =>
                     /\ Len(own) = 16
                     /\ SpanEnd(CloseOf(k)) = FieldEnd(own[16])
                     /\ (\A c \in objects : out[CloseOf(own[c] + 1)].len = 1)
                            => out[CloseOf(k)].len = 1 + 34

C9_Witness ==
    /\ status = "ok"
    /\ \E k \in Events :
          /\ IsType(k) /\ out[k].val = TYPE_CODE /\ Closed(k)
          /\ out[CloseOf(k)].len = 35
          /\ out[k + 1].name = "argcount" /\ out[k + 1].val = 1
          /\ out[k + 5].name = "flags" /\ out[k + 5].val = 5
          /\ \E m \in Events : IsStruct(m, "exceptiontable") /\ out[m + 1].val = TYPE_TRUE

----------------------------------------------------------------------------
(* C10: the cursor never moves backwards, every r_object invocation that   *)
(* returns has taken at least one byte, and every decode ends, in success  *)
(* or in failure: each statement executed strictly decreases a natural     *)
(* number that the input's length bounds, and a decode that has not ended  *)
(* always has a next statement.                                            *)
ObjectsAdvance == \A j \in Events : IsEnd(j) => out[j].len >= 1

PcWeight(pc) ==
    CASE pc = "type" -> 4
      [] pc = "switch" -> 3
      [] pc = "return" -> 1
      [] OTHER -> 2

RECURSIVE StackWeight(_)
StackWeight(frames) ==
    IF Len(frames) = 0 THEN 0
    ELSE PcWeight(Head(frames).pc) + StackWeight(Tail(frames))

(* The bytes not yet spoken for: an invocation about to read its tag has   *)
(* one byte coming (or fails).                                             *)
Unclaimed(s) ==
    Len(s.data) - s.pos
    - (IF Len(s.stack) > 0 /\ Top(s).pc = "type" THEN 1 ELSE 0)

Variant(s) ==
    IF Done(s) THEN 0
    ELSE IF s.status = "start" THEN 8 * (Len(s.data) + 2)
    ELSE 8 * (Unclaimed(s) + 1) + StackWeight(s.stack)

NextState ==
    [data |-> data', pos |-> pos', stack |-> stack', status |-> status',
     ret |-> ret', out |-> out']

HasNextStatement ==
    status = "running" =>
        /\ Len(stack) > 0
        /\ Top(cur).pc \in {"type", "switch", "items", "key", "value", "code", "return"}

C10_Terminates ==
    /\ [][pos' >= pos]_vars
    /\ [][Variant(NextState) < Variant(cur) /\ Variant(NextState) >= 0]_vars
    /\ []ObjectsAdvance
    /\ []HasNextStatement

(* A dict without a Null key that ran into the end of the input. *)
C10_Witness ==
    /\ status = "TruncatedInput"
    /\ pos = Len(data)
    /\ \E k \in 1..Len(stack) : stack[k].ty = TYPE_DICT /\ stack[k].i >= 2

====
